---- MODULE Spec2Model ----
(***************************************************************************)
(* The session orchestrator of chessmarkable (src/proto.rs, create_game):  *)
(* three pump tasks forward the participants' requests into one combined   *)
(* queue, the main loop dequeues one (sender, request) pair at a time,     *)
(* applies it to the game and sends updates.                               *)
(*                                                                         *)
(* Spec starts at the entry of the main loop (proto.rs:183), after the     *)
(* initial Board / PossibleMoves sends of lines 163-178 have been made.    *)
(* Line 162, before those sends, is a `todo!`; Spec describes what a       *)
(* session does from the loop entry on, as lines 183-360 are written.      *)
(*                                                                         *)
(* A pump iteration is one step: the receive from the participant's        *)
(* channel and the send into the combined queue, which has room for 1024   *)
(* entries and so does not wait. The request a participant sends is the    *)
(* input of that step.                                                     *)
(*                                                                         *)
(* CtorSpec is create_game from its entry up to that `todo!`. TraceSpec    *)
(* is Spec with a record kept of what the pumps forwarded and what the     *)
(* loop processed. BotSpec is the task of create_bot on its own, fed any   *)
(* updates; BotGameSpec is a session in which one player is that task.     *)
(*                                                                         *)
(* crate::game (ChessGame) is not part of the sources at hand; the rules   *)
(* engine is a small deterministic stand-in that satisfies the engine      *)
(* boundary (apply a move or reject it, undo, turn, outcome, legal moves). *)
(***************************************************************************)
EXTENDS Integers, Sequences, FiniteSets, TLC

\* ---------------------------------------------------------------- bounds
\* Raw move codes 1..NumCodes may be submitted.
NumCodes == 3
\* The stand-in engine declares a draw after this many plies.
MaxPlies == 2
\* What the participants do in one run, all of them together: each request
\* sent and each request channel dropped counts as one input.
MaxInputs == 2
\* UndoMoves{moves} carries 1..MaxUndo.
MaxUndo == 1

None == "None"
White == "White"
Black == "Black"
Spectators == "Spectators"
Players == {White, Black}
Participants == {White, Black, Spectators}

\* -------------------------------------------------- move representation
\* pleco::BitMove { data: u16 }
BitMoves == [data : 1..NumCodes]
\* BitMoveWrapper { bit_move: u16 }
BitMoveWrappers == [bit_move : 1..NumCodes]
\* impl From<BitMove> for BitMoveWrapper
FromBitMove(bm) == [bit_move |-> bm.data]
\* A conversion that yields another move than the one wrapped.
IntoBitMoveShifted(w) == [data |-> (w.bit_move % NumCodes) + 1]
\* impl Into<BitMove> for BitMoveWrapper (through Deref)
IntoBitMove(w) == [data |-> w.bit_move]

Other(p) == IF p = White THEN Black ELSE White

\* ------------------------------------------------------ the rules engine
\* ChessGame: the move history; turn and outcome are functions of it.
\* `left` records player_left.
NoOutcome == [kind |-> "None", winner |-> None]
DefaultGame == [moves |-> <<>>, left |-> None]

total_moves(g) == Len(g.moves)
movelist(g) == g.moves
turn(g) == IF Len(g.moves) % 2 = 0 THEN White ELSE Black

\* The stand-in rules: code 3 mates on the spot, and the game is drawn after
\* MaxPlies plies.
outcome(g) ==
    LET n == Len(g.moves) IN
    IF n >= 1 /\ g.moves[n].data = 3
    THEN [kind |-> "Checkmate", winner |-> IF n % 2 = 1 THEN White ELSE Black]
    ELSE IF n >= MaxPlies THEN [kind |-> "Draw", winner |-> None]
    ELSE NoOutcome

is_none(o) == o.kind = "None"
is_some(o) == o.kind # "None"

\* A concluded game has no legal move; otherwise a code may not repeat the
\* code played just before it.
possible_moves(g) ==
    IF is_some(outcome(g)) THEN {}
    ELSE {bm \in BitMoves :
            Len(g.moves) = 0 \/ bm.data # g.moves[Len(g.moves)].data}

\* game.move_piece(bit_move): Ok with the move appended, or Err with the
\* game as it was.
move_piece(g, bm) ==
    IF bm \in possible_moves(g)
    THEN [ok |-> TRUE, game |-> [g EXCEPT !.moves = Append(@, bm)]]
    ELSE [ok |-> FALSE, game |-> g]

\* game.undo(moves): Ok with the last `moves` plies removed, or Err with
\* the game as it was.
undo(g, n) ==
    IF n <= Len(g.moves)
    THEN [ok |-> TRUE,
          game |-> [g EXCEPT !.moves = SubSeq(@, 1, Len(@) - n)]]
    ELSE [ok |-> FALSE, game |-> g]

\* game.player_left(sender)
player_left(g, p) == [g EXCEPT !.left = p]

\* Applying a whole sequence of moves to the engine directly, stopping at
\* the first one it rejects.
RECURSIVE ApplyAll(_, _)
ApplyAll(g, ms) ==
    IF ms = <<>> THEN g
    ELSE LET r == move_piece(g, Head(ms)) IN
         IF r.ok THEN ApplyAll(r.game, Tail(ms)) ELSE g

\* ------------------------------------------------------------- messages
\* ChessRequest
CurrentBoard == [type |-> "CurrentBoard"]
CurrentTotalMoves == [type |-> "CurrentTotalMoves"]
CurrentOutcome == [type |-> "CurrentOutcome"]
MovePiece(w) == [type |-> "MovePiece", bit_move |-> w]
Abort(m) == [type |-> "Abort", message |-> m]
UndoMoves(n) == [type |-> "UndoMoves", moves |-> n]

ConnectionLost == "[Internal] Connection lost"

\* The requests a participant may put on its request channel.
Requests ==
    {CurrentBoard, CurrentTotalMoves, CurrentOutcome, Abort("bye")}
    \cup {MovePiece(w) : w \in BitMoveWrappers}
    \cup {UndoMoves(n) : n \in 1..MaxUndo}

\* ChessUpdate
Board(ml) == [type |-> "Board", movelist |-> ml]
PlayerMove(p, w, n) ==
    [type |-> "PlayerMove", player |-> p, last_move |-> w, moves_played |-> n]
MovePieceFailedResponse(m, w) ==
    [type |-> "MovePieceFailedResponse", message |-> m, rollback_move |-> w]
Outcome(o) == [type |-> "Outcome", outcome |-> o]
PossibleMoves(pm) == [type |-> "PossibleMoves", possible_moves |-> pm]
GenericErrorResponse(m) == [type |-> "GenericErrorResponse", message |-> m]
UndoMovesFailedResponse(m) == [type |-> "UndoMovesFailedResponse", message |-> m]
MovesUndone(p, n) == [type |-> "MovesUndone", who |-> p, moves |-> n]
CurrentTotalMovesReponse(n) ==
    [type |-> "CurrentTotalMovesReponse", total_moves |-> n]

SpectatorDenied == "Spectators can't send this kind of request!"
DeniedByEngine == "Denied by engine: "
UndoNotPermitted == "You are not permitted to do that in this game."
UndoOnlyPlayingOrOver ==
    "You can only undo when you are playing or it's game over."
UndoOnlyPlaying == "You can only undo when you are playing."

\* The (from, to) pairs sent in PossibleMoves; the stand-in engine's moves
\* have no squares, so a move's code stands for its pair.
SquarePairs(g) == {bm.data : bm \in possible_moves(g)}

\* --------------------------------------------------------------- state
VARIABLES
    game,          \* the orchestrator's ChessGame
    config,        \* ChessConfig, fixed for the session
    pump,          \* pump[p]: "running", or "done" once p's pump task returned
    combined,      \* the combined queue of (sender, request) pairs
    main_pc,       \* "loop", or how create_game ended
    out,           \* out[p]: the updates delivered on p's update channel
    updates_open,  \* the participants that hold the far ends of their channels
    last,          \* the request the main loop processed last, as a 0/1 sequence
    ninputs,       \* requests sent and channels dropped by the participants so far
    bot,           \* the task spawned by create_bot, or NoBot
    bot_requests,  \* the requests the bot has sent on request_tx and no pump
                   \* has taken, in order
    bot_last,      \* the update the bot processed last, as a 0/1 sequence
    history        \* a record of the run, kept in TraceSpec only;
                   \* history.sent[p]: the requests p's pump took from p's channel
                   \* and put on the combined queue; history.done: the pairs
                   \* the main loop has processed; both in order

vars == <<game, config, pump, combined, main_pc, out, updates_open, last,
          ninputs, bot, bot_requests, bot_last, history>>
botvars == <<bot, bot_requests, bot_last>>

\* ------------------------------------------------------ sending updates
\* A send is a (recipient, update) pair; a handler yields them in order.
To(p, msg) == [to |-> p, msg |-> msg]

\* A broadcast that leaves the Spectator channel out.
send_to_players_only(msg) == <<To(White, msg), To(Black, msg)>>

send_to_everyone(msg) ==
    <<To(White, msg), To(Black, msg), To(Spectators, msg)>>

\* sender is Some(player) or None (the Spectator channel)
send_to_sender(sender, msg) ==
    <<To(IF sender = None THEN Spectators ELSE sender, msg)>>

send_to_other_player(sender, msg) == <<To(Other(sender), msg)>>

\* tx.send(msg).await.ok(): delivered when the receiver is alive, dropped
\* otherwise.
RECURSIVE Deliver(_, _, _)
Deliver(o, open, sends) ==
    IF sends = <<>> THEN o
    ELSE LET s == Head(sends) IN
         Deliver(IF s.to \in open
                 THEN [o EXCEPT ![s.to] = Append(@, s.msg)] ELSE o,
                 open, Tail(sends))

\* ------------------------------------------------------- the main loop
available_to_spectator(req) ==
    req.type \in {"CurrentBoard", "CurrentTotalMoves"}

\* The spectator gate: a generic error to Spectators, then `continue`.
SpectatorGate(sender, req) == sender = None /\ ~available_to_spectator(req)

\* A spectator gate that ends the session instead of continuing.
SpectatorGateFatal(g) ==
    [game |-> g,
     sends |-> <<To(Spectators, GenericErrorResponse(SpectatorDenied))>>,
     pc |-> "error"]

SpectatorGateReply(g) ==
    [game |-> g,
     sends |-> <<To(Spectators, GenericErrorResponse(SpectatorDenied))>>,
     pc |-> "loop"]

\* game.movelist().into(): the move list as the Vec<BitMoveWrapper> that
\* Board carries.
MovelistInto(ms) == [i \in 1..Len(ms) |-> FromBitMove(ms[i])]

\* Requests that players as well as spectators can send.
ReadOnlyDispatch(g, sender, req) ==
    CASE req.type = "CurrentBoard" ->
            send_to_sender(sender, Board(MovelistInto(movelist(g))))
      [] req.type = "CurrentTotalMoves" ->
            send_to_sender(sender, CurrentTotalMovesReponse(total_moves(g)))
      [] req.type = "CurrentOutcome" ->
            send_to_sender(sender, Outcome(outcome(g)))
      [] OTHER -> <<>>

\* An Outcome broadcast after every move, changed or not.
OutcomeAlways(prev_outcome, new_outcome) ==
    send_to_everyone(Outcome(new_outcome))

\* if prev_outcome != new_outcome { send_to_everyone!(Outcome) }
OutcomeIfChanged(prev_outcome, new_outcome) ==
    IF prev_outcome # new_outcome
    THEN send_to_everyone(Outcome(new_outcome))
    ELSE <<>>

\* PossibleMoves sent back to the player who just moved.
PossibleMovesToMover(g, sender, new_outcome) ==
    IF is_none(new_outcome)
    THEN send_to_sender(sender, PossibleMoves(SquarePairs(g)))
    ELSE <<>>

\* if new_outcome.is_none() { send_to_other_player!(PossibleMoves) }
PossibleMovesIfOngoing(g, sender, new_outcome) ==
    IF is_none(new_outcome)
    THEN send_to_other_player(sender, PossibleMoves(SquarePairs(g)))
    ELSE <<>>

\* MovePiece, Ok(_) branch; g2 is the game after the move.
MoveAccepted(g2, sender, bit_move, prev_outcome, prev_moves_played) ==
    LET new_outcome == outcome(g2) IN
    [game |-> g2,
     sends |-> send_to_everyone(PlayerMove(sender, bit_move, prev_moves_played))
               \o OutcomeIfChanged(prev_outcome, new_outcome)
               \o PossibleMovesIfOngoing(g2, sender, new_outcome),
     pc |-> "loop"]

\* A rejection that is announced to everyone instead of the sender.
MoveRejectedBroadcast(g2, sender, bit_move) ==
    [game |-> g2,
     sends |-> send_to_everyone(MovePieceFailedResponse(DeniedByEngine, bit_move)),
     pc |-> "loop"]

\* MovePiece, Err(e) branch; g2 is the game as the engine left it.
MoveRejected(g2, sender, bit_move) ==
    [game |-> g2,
     sends |-> send_to_sender(sender,
                   MovePieceFailedResponse(DeniedByEngine, bit_move)),
     pc |-> "loop"]

HandleMovePiece(g, sender, bit_move) ==
    LET prev_outcome == outcome(g)
        prev_moves_played == total_moves(g)
        r == move_piece(g, IntoBitMove(bit_move))
    IN IF r.ok
       THEN MoveAccepted(r.game, sender, bit_move, prev_outcome, prev_moves_played)
       ELSE MoveRejected(r.game, sender, bit_move)

\* Abort: game.player_left(sender); break
HandleAbort(g, sender) ==
    [game |-> player_left(g, sender), sends |-> <<>>, pc |-> "done"]

\* The two undo flags looked up the wrong way round.
player_allowed_swapped(cfg, sender) ==
    IF sender = Black THEN cfg.can_white_undo ELSE cfg.can_black_undo

player_allowed(cfg, sender) ==
    IF sender = Black THEN cfg.can_black_undo ELSE cfg.can_white_undo

\* A timing gate that lets the player to move undo in a concluded game too.
UndoTimingOnTurnOnly(g, cfg, sender) ==
    \/ turn(g) = sender
    \/ is_some(outcome(g)) /\ cfg.allow_undo_after_loose

UndoTimingOk(g, cfg, sender) ==
    \/ turn(g) = sender /\ is_none(outcome(g))
    \/ is_some(outcome(g)) /\ cfg.allow_undo_after_loose

\* UndoMoves. After a successful game.undo and the Outcome broadcast the
\* handler reaches todo!("Handle undos"), which panics: the sends written
\* after it (PossibleMoves, MovesUndone) are never made.
HandleUndoMoves(g, cfg, sender, moves) ==
    IF ~player_allowed(cfg, sender)
    THEN [game |-> g,
          sends |-> send_to_sender(sender, UndoMovesFailedResponse(UndoNotPermitted)),
          pc |-> "loop"]
    ELSE IF ~UndoTimingOk(g, cfg, sender)
    THEN [game |-> g,
          sends |-> send_to_sender(sender, UndoMovesFailedResponse(
                        IF cfg.allow_undo_after_loose
                        THEN UndoOnlyPlayingOrOver ELSE UndoOnlyPlaying)),
          pc |-> "loop"]
    ELSE LET prev_outcome == outcome(g)
             r == undo(g, moves)
         IN IF ~r.ok
            THEN [game |-> r.game,
                  sends |-> send_to_sender(sender,
                                UndoMovesFailedResponse(DeniedByEngine)),
                  pc |-> "loop"]
            ELSE [game |-> r.game,
                  sends |-> OutcomeIfChanged(prev_outcome, outcome(r.game)),
                  pc |-> "panicked"]

\* One iteration of the loop on the dequeued (sender, request) pair: the
\* game after it, the sends it makes in order, and whether the loop goes on
\* ("loop"), breaks ("done"), returns Err ("error") or panics ("panicked").
HandleRequest(g, cfg, sender, req) ==
    IF SpectatorGate(sender, req) THEN SpectatorGateReply(g)
    ELSE LET replies == ReadOnlyDispatch(g, sender, req) IN
         IF sender = None
         THEN \* sender.context(..)? on None
              [game |-> g, sends |-> replies, pc |-> "error"]
         ELSE CASE req.type = "MovePiece" ->
                      HandleMovePiece(g, sender, req.bit_move)
                [] req.type = "Abort" -> HandleAbort(g, sender)
                [] req.type = "UndoMoves" ->
                      HandleUndoMoves(g, cfg, sender, req.moves)
                [] OTHER -> \* bail!
                      [game |-> g, sends |-> replies, pc |-> "error"]

\* ------------------------------------------------------------- actions
Configs ==
    [can_black_undo : BOOLEAN, can_white_undo : BOOLEAN,
     allow_undo_after_loose : BOOLEAN]

\* The sends made before the loop: Board to everyone, then PossibleMoves to
\* the player who has the first turn.
InitialSends ==
    send_to_everyone(Board(<<>>))
    \o <<To(turn(DefaultGame), PossibleMoves(SquarePairs(DefaultGame)))>>

\* The record of a run at its start: not kept, or kept.
NoHistory ==
    [kept |-> FALSE, sent |-> [p \in Participants |-> <<>>], done |-> <<>>]
KeptHistory == [NoHistory EXCEPT !.kept = TRUE]
\* p's pump has forwarded req; the main loop has processed the pair e.
HistorySent(h, p, req) ==
    IF h.kept THEN [h EXCEPT !.sent[p] = Append(@, req)] ELSE h
HistoryDone(h, e) ==
    IF h.kept THEN [h EXCEPT !.done = Append(@, e)] ELSE h

\* A session none of whose participants is a bot.
NoBot == [me |-> None, pc |-> "none", board |-> <<>>,
          current_outcome |-> NoOutcome, request_rx |-> "none", seen |-> 0]

\* The Spectator slot holds either a connected spectator or the pair from
\* stubbed_spectator(), whose far ends are dropped.
InitSession ==
    /\ game = DefaultGame
    /\ config \in Configs
    /\ updates_open \in {Participants, Players}
    /\ pump = [p \in Participants |-> "running"]
    /\ combined = <<>>
    /\ main_pc = "loop"
    /\ out = Deliver([p \in Participants |-> <<>>], updates_open, InitialSends)
    /\ last = <<>>
    /\ ninputs = 0
    /\ bot = NoBot
    /\ bot_requests = <<>>
    /\ bot_last = <<>>

Init == InitSession /\ history = NoHistory

\* The same session, with the record of what was forwarded and processed.
TraceInit == InitSession /\ history = KeptHistory

\* A White pump that returns on None without a word, and a Spectator pump
\* that announces the disconnect as White's does.
WhiteOnCloseSilent == <<>>
SpectatorsOnCloseAbort ==
    <<[sender |-> None, request |-> Abort(ConnectionLost)]>>

\* What each pump sends into the combined queue when its source channel
\* reports None, before it returns.
WhiteOnClose == <<[sender |-> White, request |-> Abort(ConnectionLost)]>>
BlackOnClose == <<>>
SpectatorsOnClose == <<>>

\* A queue that hands out the newest entry first.
EnqueueFront(q, e) == <<e>> \o q

\* combined_tx.send(pair): the pair goes to the back of the combined queue.
Enqueue(q, e) == Append(q, e)

\* combined_rx exists from line 100 on and is dropped when create_game ends,
\* by break, by Err or by a panic.
ReceiverAlive == main_pc \in {"spawning", "starting", "loop"}

\* One iteration of a pump on Some(req): p's participant has sent req, the
\* pump reads it and sends it on under its tag. The send does not wait (the
\* queue holds 1024 entries); it fails once the main loop has dropped
\* combined_rx, and then the pump returns.
PumpForward(p, tag, req) ==
    /\ pump[p] = "running"
    /\ p \in updates_open
    /\ ninputs < MaxInputs
    /\ ninputs' = ninputs + 1
    /\ IF ReceiverAlive
       THEN /\ combined' = Enqueue(combined, [sender |-> tag, request |-> req])
            /\ pump' = pump
            /\ history' = HistorySent(history, p, req)
       ELSE /\ combined' = combined
            /\ pump' = [pump EXCEPT ![p] = "done"]
            /\ history' = history
    /\ UNCHANGED <<game, config, main_pc, out, updates_open, last>>
    /\ UNCHANGED botvars

\* One iteration of a pump on None: p's participant has dropped the sending
\* end of its request channel (the stub's is dropped from the start). The
\* pump sends what `onclose` says, ignoring a failure, and returns.
PumpClose(p, onclose) ==
    /\ pump[p] = "running"
    /\ IF p \in updates_open
       THEN ninputs < MaxInputs /\ ninputs' = ninputs + 1
       ELSE ninputs' = ninputs
    /\ combined' = IF ReceiverAlive THEN combined \o onclose ELSE combined
    /\ pump' = [pump EXCEPT ![p] = "done"]
    /\ UNCHANGED <<game, config, main_pc, out, updates_open, last, history>>
    /\ UNCHANGED botvars

WhitePump ==
    \/ \E req \in Requests : PumpForward(White, White, req)
    \/ PumpClose(White, WhiteOnClose)
BlackPump ==
    \/ \E req \in Requests : PumpForward(Black, Black, req)
    \/ PumpClose(Black, BlackOnClose)
SpectatorsPump ==
    \/ \E req \in Requests : PumpForward(Spectators, None, req)
    \/ PumpClose(Spectators, SpectatorsOnClose)

\* One iteration of the main loop: dequeue a pair and process it fully.
\* When create_game ends, combined_rx is dropped with what it still held.
MainLoop ==
    /\ main_pc = "loop"
    /\ combined # <<>>
    /\ LET e == Head(combined)
           r == HandleRequest(game, config, e.sender, e.request)
       IN /\ game' = r.game
          /\ main_pc' = r.pc
          /\ combined' = IF r.pc = "loop" THEN Tail(combined) ELSE <<>>
          /\ out' = Deliver(out, updates_open, r.sends)
          /\ last' = <<[sender |-> e.sender, request |-> e.request,
                        prev |-> game, sends |-> r.sends]>>
          /\ history' = HistoryDone(history, e)
    /\ UNCHANGED <<config, pump, updates_open, ninputs>>
    /\ UNCHANGED botvars

\* combined_rx.next() yields None: every pump has returned and the queue is
\* empty. White's pump returns only after it has put its Abort on the queue
\* or after the loop has ended, so the loop never takes this exit; it is not
\* a disjunct of Next, and NoSendersNeverSeen states why.
MainNoSenders ==
    /\ main_pc = "loop"
    /\ combined = <<>>
    /\ \A p \in Participants : pump[p] = "done"
    /\ main_pc' = "done"
    /\ UNCHANGED <<game, config, pump, combined, out, updates_open, last,
                   ninputs, history>>
    /\ UNCHANGED botvars

Next ==
    \/ WhitePump
    \/ BlackPump
    \/ SpectatorsPump
    \/ MainLoop

Spec == Init /\ [][Next]_vars

TraceSpec == TraceInit /\ [][Next]_vars

NoSendersNeverSeen == ~ENABLED MainNoSenders

\* ---------------------------------------------- create_game up to the loop
\* ChessConfig with its starting_fen: absent, or some FEN string.
CtorConfigs ==
    [can_black_undo : BOOLEAN, can_white_undo : BOOLEAN,
     allow_undo_after_loose : BOOLEAN, starting_fen : {None, "fen"}]

\* create_game has been called and has not run yet; the participants hold
\* the far ends of their channels (the stub's are dropped).
CtorInit ==
    /\ main_pc = "new"
    /\ config \in CtorConfigs
    /\ updates_open \in {Participants, Players}
    /\ game = DefaultGame
    /\ pump = [p \in Participants |-> "unspawned"]
    /\ combined = <<>>
    /\ out = [p \in Participants |-> <<>>]
    /\ last = <<>>
    /\ ninputs = 0
    /\ bot = NoBot
    /\ bot_requests = <<>>
    /\ bot_last = <<>>
    /\ history = NoHistory

\* let mut game = if let Some(ref fen) = config.starting_fen { todo!(); .. }
\*                else { ChessGame::default() };
CtorGame ==
    /\ main_pc = "new"
    /\ IF config.starting_fen # None
       THEN main_pc' = "panicked" /\ game' = game
       ELSE main_pc' = "spawning" /\ game' = DefaultGame
    /\ UNCHANGED <<config, pump, combined, out, updates_open, last, ninputs,
                   history>>
    /\ UNCHANGED botvars

\* The combined channel is made and the three pump tasks are spawned.
CtorSpawn ==
    /\ main_pc = "spawning"
    /\ main_pc' = "starting"
    /\ pump' = [p \in Participants |-> "running"]
    /\ UNCHANGED <<game, config, combined, out, updates_open, last, ninputs,
                   history>>
    /\ UNCHANGED botvars

\* todo!("Figure out how to handle FENs or maybe remove them altogether?"):
\* create_game panics before the initial Board and PossibleMoves are sent,
\* and combined_rx is dropped with what the pumps have put on it.
CtorStart ==
    /\ main_pc = "starting"
    /\ main_pc' = "panicked"
    /\ combined' = <<>>
    /\ UNCHANGED <<game, config, pump, out, updates_open, last, ninputs,
                   history>>
    /\ UNCHANGED botvars

CtorNext ==
    \/ CtorGame
    \/ CtorSpawn
    \/ CtorStart
    \/ WhitePump
    \/ BlackPump
    \/ SpectatorsPump

CtorSpec == CtorInit /\ [][CtorNext]_vars

\* ------------------------------------------------------------ create_bot
\* Updates delivered to a bot in one run of BotSpec.
MaxUpdates == 3
\* Board snapshots delivered to a bot carry up to this many moves.
MaxSnapshot == 1

\* The shadow board is a pleco::Board, kept here as the moves applied to
\* Board::default(); board.turn() and board.moves_played() follow from it.
shadow_turn(board) == IF Len(board) % 2 = 0 THEN White ELSE Black
shadow_moves_played(board) == Len(board)
ShadowLegal(board, bm) ==
    bm \in possible_moves([moves |-> board, left |-> None])

\* board.apply_move(bm). pleco requires bm to be legal on the board: a build
\* with debug assertions panics on another move, a build without them
\* applies it unchecked.
ShadowApply(board, bm) ==
    IF ShadowLegal(board, bm)
    THEN {[panicked |-> FALSE, board |-> Append(board, bm)]}
    ELSE {[panicked |-> FALSE, board |-> Append(board, bm)],
          [panicked |-> TRUE, board |-> board]}

\* for single_move in movelist { board.apply_move(single_move.into()) }
RECURSIVE ShadowReplay(_, _)
ShadowReplay(board, ml) ==
    IF ml = <<>> THEN {[panicked |-> FALSE, board |-> board]}
    ELSE UNION {IF r.panicked THEN {r} ELSE ShadowReplay(r.board, Tail(ml)) :
                   r \in ShadowApply(board, IntoBitMove(Head(ml)))}

BotPanicked(b) == [b EXCEPT !.pc = "panicked"]

\* ChessUpdate::Board { movelist }
BotOnBoard(b, u) ==
    {[bot |-> IF r.panicked THEN BotPanicked(b)
              ELSE [b EXCEPT !.board = r.board],
      sends |-> <<>>] : r \in ShadowReplay(<<>>, u.movelist)}

\* A bot that goes on answering after the game has concluded.
BotReactsAlways(b, u) == u.player = b.me

\* if player == me && current_outcome.is_none()
BotReactsTo(b, u) == u.player = b.me /\ is_none(b.current_outcome)

\* assert!(board.turn() == player.into() && board.moves_played() == moves_played)
BotInSync(b, u) ==
    shadow_turn(b.board) = u.player /\ shadow_moves_played(b.board) = u.moves_played

\* T::best_move(board_copy, depth), then request_tx.send(MovePiece).expect():
\* the searcher may return any move; the send panics when request_rx is gone.
BotAnswers(b) ==
    IF b.request_rx = "open"
    THEN {[bot |-> b, sends |-> <<MovePiece(FromBitMove(bm))>>] : bm \in BitMoves}
    ELSE {[bot |-> BotPanicked(b), sends |-> <<>>]}

\* ChessUpdate::PlayerMove { player, last_move, moves_played }
BotOnPlayerMove(b, u) ==
    IF ~BotReactsTo(b, u) THEN {[bot |-> b, sends |-> <<>>]}
    ELSE IF ~BotInSync(b, u) THEN {[bot |-> BotPanicked(b), sends |-> <<>>]}
    ELSE UNION {IF r.panicked THEN {[bot |-> BotPanicked(b), sends |-> <<>>]}
                ELSE BotAnswers([b EXCEPT !.board = r.board]) :
                   r \in ShadowApply(b.board, IntoBitMove(u.last_move))}

\* ChessUpdate::MovePieceFailedResponse: break
BotOnMoveFailed(b, u) == {[bot |-> [b EXCEPT !.pc = "ended"], sends |-> <<>>]}

\* ChessUpdate::Outcome { outcome }
BotOnOutcome(b, u) ==
    {[bot |-> [b EXCEPT !.current_outcome = u.outcome], sends |-> <<>>]}

\* One iteration of the bot's loop on Some(update): the ways it can go, each
\* the bot afterwards and the requests it sent.
BotHandle(b, u) ==
    CASE u.type = "Board" -> BotOnBoard(b, u)
      [] u.type = "PlayerMove" -> BotOnPlayerMove(b, u)
      [] u.type = "MovePieceFailedResponse" -> BotOnMoveFailed(b, u)
      [] u.type = "Outcome" -> BotOnOutcome(b, u)
      [] OTHER -> {[bot |-> b, sends |-> <<>>]}

\* The task as create_bot spawns it for `me`; seen counts the updates it has
\* taken from update_rx.
NewBot(me) == [me |-> me, pc |-> "running", board |-> <<>>,
               current_outcome |-> NoOutcome, request_rx |-> "open",
               seen |-> 0]

\* The bot takes update u from its channel and handles it.
BotStep(u) ==
    /\ bot.pc = "running"
    /\ \E r \in BotHandle(bot, u) :
          /\ bot' = [r.bot EXCEPT !.seen = @ + 1]
          /\ bot_requests' = bot_requests \o r.sends
          /\ bot_last' = <<[update |-> u, prev |-> bot, sends |-> r.sends]>>

\* update_rx.recv() yields None: the while loop ends and the task returns,
\* dropping request_tx.
BotLoopEnds ==
    /\ bot.pc = "running"
    /\ bot' = [bot EXCEPT !.pc = "ended"]
    /\ UNCHANGED <<bot_requests, bot_last>>

\* ------------------------------------------------ a bot and its channels
\* The bot on its own: whoever holds update_tx sends it updates or drops
\* update_tx, and whoever holds request_rx may drop it.
Snapshots ==
    UNION {[1..n -> BitMoveWrappers] : n \in 0..MaxSnapshot}
Outcomes ==
    {NoOutcome, [kind |-> "Draw", winner |-> None],
     [kind |-> "Checkmate", winner |-> White],
     [kind |-> "Checkmate", winner |-> Black]}
BotUpdates ==
    {Board(ml) : ml \in Snapshots}
    \cup {PlayerMove(p, w, n) :
            p \in Players, w \in BitMoveWrappers, n \in 0..MaxPlies}
    \cup {MovePieceFailedResponse(DeniedByEngine, w) : w \in BitMoveWrappers}
    \cup {Outcome(o) : o \in Outcomes}
    \cup {PossibleMoves({}), MovesUndone(White, 1)}

IdleConfig == [can_black_undo |-> FALSE, can_white_undo |-> FALSE,
               allow_undo_after_loose |-> FALSE]

BotInit ==
    /\ bot \in {NewBot(me) : me \in Players}
    /\ bot_requests = <<>>
    /\ bot_last = <<>>
    /\ ninputs = 0
    /\ game = DefaultGame
    /\ config = IdleConfig
    /\ pump = [p \in Participants |-> "none"]
    /\ combined = <<>>
    /\ main_pc = "none"
    /\ out = [p \in Participants |-> <<>>]
    /\ updates_open = {}
    /\ last = <<>>
    /\ history = NoHistory

gamevars == <<game, config, pump, combined, main_pc, out, updates_open, last,
              history>>

\* An update arrives on update_rx and the bot handles it.
BotReceives ==
    /\ ninputs < MaxUpdates
    /\ ninputs' = ninputs + 1
    /\ \E u \in BotUpdates : BotStep(u)
    /\ UNCHANGED gamevars

\* update_tx is dropped.
BotUpdatesClosed ==
    /\ BotLoopEnds
    /\ UNCHANGED ninputs
    /\ UNCHANGED gamevars

\* request_rx is dropped.
BotRequestRxDropped ==
    /\ bot.request_rx = "open"
    /\ bot' = [bot EXCEPT !.request_rx = "dropped"]
    /\ UNCHANGED <<bot_requests, bot_last, ninputs>>
    /\ UNCHANGED gamevars

BotNext == BotReceives \/ BotUpdatesClosed \/ BotRequestRxDropped

BotSpec == BotInit /\ [][BotNext]_vars

\* ------------------------------------------- a session with a bot in it
\* create_game with the pair that create_bot(me) returned in me's place, a
\* person on the other side, and a connected or stubbed Spectator; as in
\* Spec, from the entry of the main loop on. The bot takes its updates from
\* out[me], in order.
BotGameInit ==
    /\ game = DefaultGame
    /\ config \in Configs
    /\ updates_open \in {Participants, Players}
    /\ pump = [p \in Participants |-> "running"]
    /\ combined = <<>>
    /\ main_pc = "loop"
    /\ out = Deliver([p \in Participants |-> <<>>], updates_open, InitialSends)
    /\ last = <<>>
    /\ ninputs = 0
    /\ history = NoHistory
    /\ bot \in {NewBot(me) : me \in Players}
    /\ bot_requests = <<>>
    /\ bot_last = <<>>

\* The pump of the person's side.
OpponentPump ==
    \/ bot.me = Black /\ WhitePump
    \/ bot.me = White /\ BlackPump

\* The bot takes the next update the orchestrator sent it.
BotTakes ==
    /\ bot.seen < Len(out[bot.me])
    /\ BotStep(out[bot.me][bot.seen + 1])
    /\ UNCHANGED gamevars
    /\ UNCHANGED ninputs

\* create_game has ended and dropped its update senders; the bot has taken
\* what was sent and its recv yields None.
BotSessionOver ==
    /\ ~ReceiverAlive
    /\ bot.seen = Len(out[bot.me])
    /\ BotLoopEnds
    /\ UNCHANGED gamevars
    /\ UNCHANGED ninputs

\* The pump of the bot's side takes a request of the bot and forwards it
\* under the bot's tag. The bot never sends one (BotNeverAsks), so this is
\* not a disjunct of BotGameNext.
BotPumpForward ==
    /\ pump[bot.me] = "running"
    /\ bot_requests # <<>>
    /\ bot_requests' = Tail(bot_requests)
    /\ IF ReceiverAlive
       THEN /\ combined' = Enqueue(combined, [sender |-> bot.me,
                                               request |-> Head(bot_requests)])
            /\ pump' = pump
            /\ history' = HistorySent(history, bot.me, Head(bot_requests))
       ELSE /\ combined' = combined
            /\ pump' = [pump EXCEPT ![bot.me] = "done"]
            /\ history' = history
    /\ UNCHANGED <<game, config, main_pc, out, updates_open, last, ninputs,
                   bot, bot_last>>

\* The bot's task is gone and with it request_tx: the pump of the bot's
\* side reads None, sends what its side sends on close, and returns.
BotPumpClose ==
    /\ pump[bot.me] = "running"
    /\ bot.pc \in {"ended", "panicked"}
    /\ bot_requests = <<>>
    /\ combined' = IF ReceiverAlive
                   THEN combined \o (IF bot.me = White THEN WhiteOnClose
                                     ELSE BlackOnClose)
                   ELSE combined
    /\ pump' = [pump EXCEPT ![bot.me] = "done"]
    /\ UNCHANGED <<game, config, main_pc, out, updates_open, last, ninputs,
                   history>>
    /\ UNCHANGED botvars

BotGameNext ==
    \/ OpponentPump
    \/ SpectatorsPump
    \/ MainLoop
    \/ BotTakes
    \/ BotSessionOver
    \/ BotPumpClose

BotGameSpec == BotGameInit /\ [][BotGameNext]_vars

BotNeverAsks == bot_requests = <<>> /\ ~ENABLED BotPumpForward

\* ------------------------------------------------- the request just processed
Processed == last # <<>>
LastSender == last[1].sender
LastRequest == last[1].request
LastPrev == last[1].prev
LastSends == last[1].sends

\* Number of updates of type ty the last request sent to p.
Cnt(p, ty) ==
    Cardinality({i \in 1..Len(LastSends) :
                    LastSends[i].to = p /\ LastSends[i].msg.type = ty})
\* Number of updates of any type the last request sent to p.
CntAll(p) ==
    Cardinality({i \in 1..Len(LastSends) : LastSends[i].to = p})
\* The updates the last request sent to p, in order.
MsgsTo(p) ==
    LET ToP(s) == s.to = p
        sel == SelectSeq(LastSends, ToP)
    IN [i \in 1..Len(sel) |-> sel[i].msg]
IsSuffix(t, u) ==
    Len(t) <= Len(u) /\ SubSeq(u, Len(u) - Len(t) + 1, Len(u)) = t

LastIsPlayerMove ==
    Processed /\ LastSender \in Players /\ LastRequest.type = "MovePiece"
LastEngineVerdict == move_piece(LastPrev, [data |-> LastRequest.bit_move.bit_move])
LastRejected == LastIsPlayerMove /\ ~LastEngineVerdict.ok
LastAccepted == LastIsPlayerMove /\ LastEngineVerdict.ok

\* C1: a MovePiece of White or Black that the rules engine rejects leaves
\* move count, side to move and outcome as they were, and the only update
\* sent is one MovePieceFailedResponse with rollback_move = that move, to the
\* sender alone.
C1_RejectedMoveIsPrivateAndHarmless ==
    LastRejected =>
        /\ total_moves(game) = total_moves(LastPrev)
        /\ turn(game) = turn(LastPrev)
        /\ outcome(game) = outcome(LastPrev)
        /\ movelist(game) = movelist(LastPrev)
        /\ Len(LastSends) = 1
        /\ LastSends[1].to = LastSender
        /\ LastSends[1].msg.type = "MovePieceFailedResponse"
        /\ LastSends[1].msg.rollback_move = LastRequest.bit_move
        /\ main_pc = "loop"

\* A move rejected while the game is still ongoing (a repeated code).
C1_Witness == LastRejected /\ is_none(outcome(game)) /\ total_moves(game) = 1

\* C2: an accepted MovePiece of player P after which the game is ongoing
\* sends PlayerMove{P, move, move count before} to White, Black and
\* Spectators, no Outcome, and exactly one PossibleMoves, to the other
\* player; White's first move of the session carries moves_played = 0.
C2_AcceptedOngoingMove ==
    LastAccepted /\ is_none(outcome(game)) =>
        LET pm == [type |-> "PlayerMove", player |-> LastSender,
                   last_move |-> LastRequest.bit_move,
                   moves_played |-> Len(LastPrev.moves)]
        IN /\ \A p \in Participants : Cnt(p, "PlayerMove") = 1 /\ MsgsTo(p)[1] = pm
           /\ \A p \in Participants : Cnt(p, "Outcome") = 0
           /\ Cnt(Other(LastSender), "PossibleMoves") = 1
           /\ Cnt(LastSender, "PossibleMoves") = 0
           /\ Cnt(Spectators, "PossibleMoves") = 0
           /\ Len(LastSends) = 4
           /\ (LastPrev = DefaultGame /\ LastSender = White =>
                 /\ pm.moves_played = 0
                 /\ CntAll(Black) = 2 /\ CntAll(White) = 1)

\* The first move of the session, made by White and accepted.
C2_Witness ==
    /\ LastAccepted /\ is_none(outcome(game))
    /\ LastPrev = DefaultGame /\ LastSender = White

\* C3: a MovePiece that takes the outcome from none to some broadcasts
\* exactly one Outcome carrying the new outcome to White, Black and
\* Spectators and sends no PossibleMoves; and whatever the request, an
\* Outcome broadcast is made exactly when the outcome after it differs from
\* the outcome before it.
C3_OutcomeBroadcastIffChanged ==
    /\ LastAccepted /\ is_none(outcome(LastPrev)) /\ is_some(outcome(game)) =>
          /\ \A p \in Participants :
                /\ Cnt(p, "Outcome") = 1
                /\ MsgsTo(p)[2] = [type |-> "Outcome", outcome |-> outcome(game)]
                /\ Cnt(p, "PossibleMoves") = 0
    /\ Processed =>
          ((\A p \in Participants : Cnt(p, "Outcome") >= 1)
             <=> outcome(game) # outcome(LastPrev))

\* A move that concludes the game.
C3_Witness ==
    LastAccepted /\ is_none(outcome(LastPrev)) /\ is_some(outcome(game))

LastIsSpectator == Processed /\ LastSender = None
ReadOnlyTypes == {"CurrentBoard", "CurrentTotalMoves", "CurrentOutcome"}
PlayerOnlyTypes == {"MovePiece", "Abort", "UndoMoves"}

\* The reply a read-only query of the given type is owed, from game g.
ReplyOwed(ty, g) ==
    CASE ty = "CurrentBoard" ->
            [type |-> "Board",
             movelist |-> [i \in 1..Len(g.moves) |->
                              [bit_move |-> g.moves[i].data]]]
      [] ty = "CurrentTotalMoves" ->
            [type |-> "CurrentTotalMovesReponse", total_moves |-> Len(g.moves)]
      [] ty = "CurrentOutcome" -> [type |-> "Outcome", outcome |-> outcome(g)]

\* C4: a CurrentBoard, CurrentTotalMoves or CurrentOutcome request on the
\* Spectator channel is answered with its reply, sent to Spectators, and
\* never with a GenericErrorResponse.
C4_SpectatorQueriesAnswered ==
    LastIsSpectator /\ LastRequest.type \in ReadOnlyTypes =>
        /\ Cnt(Spectators, "GenericErrorResponse") = 0
        /\ CntAll(Spectators) = 1
        /\ MsgsTo(Spectators)[1] = ReplyOwed(LastRequest.type, LastPrev)

\* C5: a MovePiece, Abort or UndoMoves request on the Spectator channel
\* yields exactly one GenericErrorResponse to Spectators and nothing to
\* White or Black, leaves the game as it was, and the loop goes on to the
\* next request.
C5_SpectatorDenied ==
    LastIsSpectator /\ LastRequest.type \in PlayerOnlyTypes =>
        /\ Len(LastSends) = 1
        /\ LastSends[1].to = Spectators
        /\ LastSends[1].msg.type = "GenericErrorResponse"
        /\ CntAll(White) = 0 /\ CntAll(Black) = 0
        /\ game = LastPrev
        /\ main_pc = "loop"
        /\ (combined # <<>> => ENABLED MainLoop)

\* A denied spectator request with another request waiting behind it.
C5_Witness ==
    /\ LastIsSpectator /\ LastRequest.type \in PlayerOnlyTypes
    /\ combined # <<>>

LastIsUndoWithoutFlag ==
    /\ Processed /\ LastSender \in Players /\ LastRequest.type = "UndoMoves"
    /\ ~(IF LastSender = White THEN config.can_white_undo
         ELSE config.can_black_undo)

\* C6: UndoMoves from a player whose undo flag is false yields one
\* UndoMovesFailedResponse with the fixed "not permitted" message to that
\* player only, whatever the turn, the outcome and allow_undo_after_loose;
\* nobody else receives anything and the game is unchanged.
C6_UndoWithoutFlagDenied ==
    LastIsUndoWithoutFlag =>
        /\ Len(LastSends) = 1
        /\ LastSends[1].to = LastSender
        /\ LastSends[1].msg =
              [type |-> "UndoMovesFailedResponse",
               message |-> "You are not permitted to do that in this game."]
        /\ game = LastPrev
        /\ main_pc = "loop"

\* The flag is false, the game is over and undo after the end is allowed.
C6_Witness ==
    /\ LastIsUndoWithoutFlag
    /\ is_some(outcome(game))
    /\ config.allow_undo_after_loose

WhiteAbort == [sender |-> White, request |-> Abort(ConnectionLost)]
BlackAbort == [sender |-> Black, request |-> Abort(ConnectionLost)]

\* Pump p reads None from its source channel in this step, while the main
\* loop runs (a pump also returns when its send fails, after the loop ended).
SeesClose(p) ==
    main_pc = "loop" /\ pump[p] = "running" /\ pump'[p] = "done"
\* The main loop dequeues in this step.
Dequeues == main_pc = "loop" /\ Len(combined') < Len(combined)

\* C7: when White's request channel closes while the session runs, White's
\* pump puts an Abort tagged White on the combined queue, the main loop ends
\* when it processes that Abort, and from then on no update is sent.
C7_WhiteDisconnectEndsSession ==
    /\ [][SeesClose(White) =>
            combined' = Append(combined, WhiteAbort)]_vars
    /\ [][Dequeues /\ Head(combined) = WhiteAbort =>
            main_pc' = "done" /\ out' = out]_vars
    /\ [][main_pc # "loop" => out' = out /\ main_pc' = main_pc]_vars

\* The loop has ended on White's synthetic Abort.
C7_Witness ==
    /\ main_pc = "done" /\ Processed
    /\ LastSender = White /\ LastRequest = Abort(ConnectionLost)
    /\ pump[White] = "done"

\* C8: when Black's request channel closes while the session runs, Black's
\* pump puts an Abort tagged Black on the combined queue before it returns,
\* and the main loop ends once that Abort is processed.
C8_BlackDisconnectEnqueuesAbort ==
    /\ [][SeesClose(Black) =>
            combined' = Append(combined, BlackAbort)]_vars
    /\ [][Dequeues /\ Head(combined) = BlackAbort => main_pc' = "done"]_vars

\* C9: a closed Spectator request channel puts no Abort on the queue and
\* does not end the loop; sends to a closed Spectator update channel are
\* dropped without effect; MovePiece requests of the players are still
\* processed and answered.
C9_ClosedSpectatorTolerated ==
    /\ [][SeesClose(Spectators) =>
            combined' = combined /\ main_pc' = main_pc]_vars
    /\ [](\A i \in 1..Len(combined) :
            combined[i].sender = None =>
                combined[i].request # Abort(ConnectionLost))
    /\ [](Spectators \notin updates_open /\ LastIsPlayerMove =>
            /\ main_pc = "loop"
            /\ out[Spectators] = <<>>
            /\ CntAll(LastSender) + CntAll(Other(LastSender)) >= 1
            /\ \A p \in Players : IsSuffix(MsgsTo(p), out[p]))

\* With the stubbed spectator, whose pump has returned, a second move has
\* been processed and answered.
C9_Witness ==
    /\ Spectators \notin updates_open /\ pump[Spectators] = "done"
    /\ LastIsPlayerMove /\ total_moves(LastPrev) = 1 /\ main_pc = "loop"

\* The moves announced so far in PlayerMove updates, as White received them.
RECURSIVE AnnouncedMoves(_)
AnnouncedMoves(updates) ==
    IF updates = <<>> THEN <<>>
    ELSE LET u == Head(updates) IN
         (IF u.type = "PlayerMove" THEN <<[data |-> u.last_move.bit_move]>>
          ELSE <<>>) \o AnnouncedMoves(Tail(updates))

\* C10: submitting accepted moves one at a time as MovePiece requests leaves
\* the orchestrator's game with the outcome and the move count that
\* applying the whole sequence to the rules engine directly gives; each
\* request applies its move exactly once. (A run in which an undo went
\* through is not a sequence of moves only and is left out.)
C10_StepwiseEqualsDirect ==
    main_pc # "panicked" =>
        LET ms == AnnouncedMoves(out[White])
            direct == ApplyAll(DefaultGame, ms)
        IN /\ total_moves(direct) = Len(ms)
           /\ total_moves(game) = total_moves(direct)
           /\ outcome(game) = outcome(direct)
           /\ movelist(game) = ms

\* Two moves have been accepted one after the other.
C10_Witness ==
    /\ main_pc = "loop" /\ LastAccepted
    /\ Len(AnnouncedMoves(out[White])) = 2

\* ------------------------------------------------ the update just handled
BotProcessed == bot_last # <<>>
BotLastUpdate == bot_last[1].update
BotLastPrev == bot_last[1].prev
BotLastSends == bot_last[1].sends

\* The bot plays Black and the update it handled last is a PlayerMove of
\* White whose moves_played is not the move count of the shadow board.
BlackBotSawDesyncedWhiteMove ==
    /\ BotProcessed
    /\ BotLastPrev.me = Black
    /\ BotLastUpdate.type = "PlayerMove"
    /\ BotLastUpdate.player = White
    /\ BotLastUpdate.moves_played # shadow_moves_played(BotLastPrev.board)

\* C11: a bot playing Black that receives a PlayerMove of White whose
\* moves_played differs from the move count of its shadow board halts: its
\* loop is no longer running after that update, and it sent nothing on it.
C11_DesyncedWhiteMoveHaltsBlackBot ==
    BlackBotSawDesyncedWhiteMove =>
        bot.pc # "running" /\ BotLastSends = <<>>

\* What p has received when the initial broadcast is done.
InitialUpdatesOf(p) ==
    IF p \notin updates_open THEN <<>>
    ELSE IF p = White
    THEN <<[type |-> "Board", movelist |-> <<>>],
           [type |-> "PossibleMoves", possible_moves |-> 1..NumCodes]>>
    ELSE <<[type |-> "Board", movelist |-> <<>>]>>

\* C12: with starting_fen absent, once create_game is past its set-up and
\* before it has processed any request, White has received Board with an
\* empty move list and then PossibleMoves, and Black and Spectators have
\* received that Board and nothing else.
C12_InitialBroadcastBeforeLoop ==
    /\ config.starting_fen = None
    /\ main_pc \notin {"new", "spawning", "starting"}
    /\ last = <<>>
    => \A p \in Participants : out[p] = InitialUpdatesOf(p)

LastIsReadOnly == Processed /\ LastRequest.type \in ReadOnlyTypes
Requester == IF LastSender = None THEN Spectators ELSE LastSender

\* C13: processing CurrentBoard, CurrentTotalMoves or CurrentOutcome from
\* White, Black or Spectators sends exactly one update, to the requester,
\* leaves the game as it was and leaves the loop running, so that a request
\* waiting behind the query is processed next.
C13_ReadOnlyQueryKeepsSessionRunning ==
    LastIsReadOnly =>
        /\ Len(LastSends) = 1
        /\ LastSends[1].to = Requester
        /\ game = LastPrev
        /\ main_pc = "loop"
        /\ (combined # <<>> => ENABLED MainLoop)

\* C14: a MovePiece changes the game only when its sender is the player to
\* move: one sent by the other player leaves the game as it was, and every
\* PlayerMove update names the side that was to move before the move.
C14_MovesOnlyOnOwnTurn ==
    LastIsPlayerMove =>
        /\ (LastSender # turn(LastPrev) => game = LastPrev)
        /\ \A i \in 1..Len(LastSends) :
              LastSends[i].msg.type = "PlayerMove" =>
                  LastSends[i].msg.player = turn(LastPrev)

LastIsUndoWithFlag ==
    /\ Processed /\ LastSender \in Players /\ LastRequest.type = "UndoMoves"
    /\ (IF LastSender = White THEN config.can_white_undo
        ELSE config.can_black_undo)
\* The moment at which a player with the flag may undo.
LastUndoInTime ==
    \/ turn(LastPrev) = LastSender /\ outcome(LastPrev).kind = "None"
    \/ outcome(LastPrev).kind # "None" /\ config.allow_undo_after_loose
TimingMessages ==
    {"You can only undo when you are playing or it's game over.",
     "You can only undo when you are playing."}

\* C15: UndoMoves from a player whose undo flag is true, sent when it is
\* neither (that player's turn in an ongoing game) nor (a concluded game
\* with allow_undo_after_loose), leaves the game as it was and sends one
\* UndoMovesFailedResponse to that player only; its message depends on
\* allow_undo_after_loose and is not the "not permitted" message. An undo
\* sent in time is never answered with one of these two messages.
C15_UndoOutOfTimeDenied ==
    /\ LastIsUndoWithFlag /\ ~LastUndoInTime =>
          /\ game = LastPrev
          /\ Len(LastSends) = 1
          /\ LastSends[1].to = LastSender
          /\ LastSends[1].msg =
                [type |-> "UndoMovesFailedResponse",
                 message |->
                    IF config.allow_undo_after_loose
                    THEN "You can only undo when you are playing or it's game over."
                    ELSE "You can only undo when you are playing."]
          /\ LastSends[1].msg.message #
                "You are not permitted to do that in this game."
          /\ main_pc = "loop"
    /\ LastIsUndoWithFlag /\ LastUndoInTime =>
          \A i \in 1..Len(LastSends) :
             LastSends[i].msg.type = "UndoMovesFailedResponse" =>
                 LastSends[i].msg.message \notin TimingMessages

\* The player to move asks for an undo in a concluded game, with the flag
\* and without allow_undo_after_loose.
C15_Witness ==
    /\ LastIsUndoWithFlag /\ ~LastUndoInTime
    /\ outcome(LastPrev).kind # "None"
    /\ turn(LastPrev) = LastSender
    /\ ~config.allow_undo_after_loose

\* The other player asks for an undo in an ongoing game, with the flag and
\* with allow_undo_after_loose.
C15_WitnessNotOnTurn ==
    /\ LastIsUndoWithFlag /\ ~LastUndoInTime
    /\ outcome(LastPrev).kind = "None"
    /\ config.allow_undo_after_loose

\* An undo that passed both gates, and what the engine says to it.
LastUndoReachedEngine == LastIsUndoWithFlag /\ LastUndoInTime
LastUndoVerdict == undo(LastPrev, LastRequest.moves)

\* The updates a performed undo is to send, in order.
UndoAnnouncement ==
    (IF outcome(game) # outcome(LastPrev)
     THEN <<[to |-> White, msg |-> [type |-> "Outcome", outcome |-> outcome(game)]],
            [to |-> Black, msg |-> [type |-> "Outcome", outcome |-> outcome(game)]],
            [to |-> Spectators,
             msg |-> [type |-> "Outcome", outcome |-> outcome(game)]]>>
     ELSE <<>>)
    \o <<[to |-> turn(game),
          msg |-> [type |-> "PossibleMoves",
                   possible_moves |-> SquarePairs(game)]]>>
    \o [i \in 1..3 |->
          [to |-> <<White, Black, Spectators>>[i],
           msg |-> [type |-> "MovesUndone", who |-> LastSender,
                    moves |-> LastRequest.moves]]]

\* An undo the engine refuses: the requester alone hears of it, and the
\* game is as it was.
UndoRefusedByEngineIsPrivate ==
    LastUndoReachedEngine /\ ~LastUndoVerdict.ok =>
        /\ LastSends = <<[to |-> LastSender,
                          msg |-> [type |-> "UndoMovesFailedResponse",
                                   message |-> "Denied by engine: "]]>>
        /\ game = LastPrev
        /\ main_pc = "loop"

\* C16: an UndoMoves that passes the gates and that the engine performs
\* broadcasts Outcome if the outcome changed, then sends PossibleMoves to the
\* player who now has the turn, then broadcasts MovesUndone{sender, moves},
\* and the loop goes on; one the engine refuses is answered to the requester
\* alone and changes nothing.
C16_UndoAppliedAndAnnounced ==
    /\ LastUndoReachedEngine /\ LastUndoVerdict.ok =>
          /\ game = LastUndoVerdict.game
          /\ LastSends = UndoAnnouncement
          /\ main_pc = "loop"
    /\ UndoRefusedByEngineIsPrivate

\* The tag under which p's pump forwards.
TagOf(p) == IF p = Spectators THEN "None" ELSE p
\* The requests in a sequence of (sender, request) pairs that carry tag t,
\* in order, leaving out the Abort a pump makes up itself.
RequestsTagged(pairs, t) ==
    LET Mine(e) == e.sender = t /\ e.request # Abort(ConnectionLost)
        sel == SelectSeq(pairs, Mine)
    IN [i \in 1..Len(sel) |-> sel[i].request]
IsPrefix(t, u) == Len(t) <= Len(u) /\ SubSeq(u, 1, Len(t)) = t

C17_WitnessInterleaved ==
    /\ Len(history.sent[White]) = 1 /\ Len(history.sent[Black]) = 1
    /\ Len(history.done) = 2
    /\ history.done[1].sender = Black

BroadcastTypes == {"Board", "PlayerMove", "Outcome", "MovesUndone"}
NeverPrivateTypes == {"PlayerMove", "MovesUndone"}
OfTypes(updates, tys) ==
    LET Wanted(u) == u.type \in tys IN SelectSeq(updates, Wanted)
\* Board and Outcome are also the private replies to CurrentBoard and
\* CurrentOutcome; no such reply has been made while this holds.
NoQueryProcessed ==
    \A i \in 1..Len(history.done) :
        history.done[i].request.type \notin ReadOnlyTypes
Connected == updates_open

\* C18: the broadcast updates (the Board at the start, PlayerMove, Outcome,
\* MovesUndone) reach White, Black and a connected Spectator as one and the
\* same sequence, and each PlayerMove carries as moves_played the move count
\* of the game just before its move was applied.
C18_BroadcastsConsistent ==
    /\ White \in Connected
    /\ \A p \in Connected :
          /\ OfTypes(out[p], NeverPrivateTypes) =
                OfTypes(out[White], NeverPrivateTypes)
          /\ NoQueryProcessed =>
                OfTypes(out[p], BroadcastTypes) =
                   OfTypes(out[White], BroadcastTypes)
    /\ \A p \in Connected :
          /\ out[p] # <<>>
          /\ out[p][1] = [type |-> "Board", movelist |-> <<>>]
    /\ Processed =>
          \A i \in 1..Len(LastSends) :
             LastSends[i].msg.type = "PlayerMove" =>
                 /\ LastSends[i].msg.moves_played = Len(LastPrev.moves)
                 /\ Len(game.moves) = Len(LastPrev.moves) + 1
    /\ \A p \in Connected :
          LET pms == OfTypes(out[p], {"PlayerMove"}) IN
          \A i \in 1..Len(pms) : pms[i].moves_played = i - 1

\* A connected Spectator has received the Board, two PlayerMove updates and
\* the Outcome that the second move brought.
C18_Witness ==
    /\ Spectators \in updates_open
    /\ NoQueryProcessed
    /\ Len(OfTypes(out[Spectators], {"PlayerMove"})) = 2
    /\ Len(OfTypes(out[Spectators], {"Outcome"})) = 1

\* In this step the bot takes an update from its channel.
BotTakesUpdate == ninputs' = ninputs + 1
\* In this step the bot's loop stops, one way or another.
BotStops == bot.pc = "running" /\ bot'.pc # "running"
\* In this step update_rx.recv() yields None.
BotSeesClose == BotStops /\ ~BotTakesUpdate /\ bot'.pc = "ended"
\* In this step the bot takes a MovePieceFailedResponse.
BotSeesMoveFailed ==
    BotTakesUpdate /\ bot_last'[1].update.type = "MovePieceFailedResponse"
\* In this step the task panics on an update: on a PlayerMove of its own
\* side in a game it takes to be ongoing (the desynchronization assert, a
\* move the shadow board does not accept, or the request send failing), or
\* on a Board whose move list the shadow board does not accept.
BotPanicsOnUpdate ==
    /\ BotTakesUpdate
    /\ bot'.pc = "panicked"
    /\ LET u == bot_last'[1].update IN
       \/ /\ u.type = "PlayerMove"
          /\ u.player = bot.me
          /\ bot.current_outcome.kind = "None"
          /\ \/ shadow_turn(bot.board) # u.player
             \/ Len(bot.board) # u.moves_played
             \/ ~ShadowLegal(bot.board, [data |-> u.last_move.bit_move])
             \/ bot.request_rx = "dropped"
       \/ /\ u.type = "Board"
          /\ \E i \in 1..Len(u.movelist) :
                ~ShadowLegal([j \in 1..(i - 1) |-> [data |-> u.movelist[j].bit_move]],
                             [data |-> u.movelist[i].bit_move])

\* What C19 says of a concluded game: the bot's current_outcome is the
\* outcome of the last Outcome update it took, and a PlayerMove taken while
\* that outcome is concluded sends nothing and leaves the loop running.
BotQuietOnceConcluded ==
    /\ [][bot'.current_outcome # bot.current_outcome =>
             BotTakesUpdate /\ bot_last'[1].update.type = "Outcome"]_vars
    /\ [][BotTakesUpdate /\ bot_last'[1].update.type = "Outcome" =>
             bot'.current_outcome = bot_last'[1].update.outcome
             /\ bot'.pc = "running"]_vars
    /\ [][/\ BotTakesUpdate
          /\ bot_last'[1].update.type = "PlayerMove"
          /\ bot.current_outcome.kind # "None"
          => /\ bot_requests' = bot_requests
             /\ bot'.pc = "running"
             /\ bot'.board = bot.board]_vars
    /\ [][bot.pc # "running" =>
             bot_requests' = bot_requests /\ bot'.pc = bot.pc]_vars

\* C19 as claimed: besides the above, the bot's loop stops only when its
\* update channel closes or when it takes a MovePieceFailedResponse.
C19_BotStopsOnlyOnCloseOrRejection ==
    /\ BotQuietOnceConcluded
    /\ [][BotStops => BotSeesClose \/ BotSeesMoveFailed]_vars

\* C19 as amended: the bot's loop stops only when its update channel closes,
\* when it takes a MovePieceFailedResponse, or when the task panics on an
\* update.
C19_BotStopsOnCloseRejectionOrPanic ==
    /\ BotQuietOnceConcluded
    /\ [][BotStops =>
             BotSeesClose \/ BotSeesMoveFailed \/ BotPanicsOnUpdate]_vars

\* The bot took a concluded Outcome and after it a PlayerMove of its own
\* side that agrees with its shadow board; it sent nothing and runs on.
C19_Witness ==
    /\ BotProcessed
    /\ BotLastUpdate.type = "PlayerMove"
    /\ BotLastUpdate.player = bot.me
    /\ BotLastPrev.current_outcome.kind # "None"
    /\ BotLastUpdate.moves_played = Len(BotLastPrev.board)
    /\ shadow_turn(BotLastPrev.board) = bot.me
    /\ bot.pc = "running"
    /\ bot_requests = <<>>

\* After a concluded Outcome and then an Outcome with no outcome, the bot
\* has answered a PlayerMove of its own side with a MovePiece.
C19_WitnessResumes ==
    /\ BotProcessed
    /\ BotLastUpdate.type = "PlayerMove"
    /\ ninputs = 3
    /\ Len(bot_requests) = 1
    /\ bot.board # <<>> /\ Len(bot.board) = 1

\* The bot has taken every update the orchestrator has sent it so far.
BotCaughtUp == bot.pc = "running" /\ bot.seen = Len(out[bot.me])

\* C20: whenever the bot has taken every update sent to it so far, the moves
\* on its shadow board are the moves of the orchestrator's game.
C20_ShadowBoardTracksGame ==
    BotCaughtUp => bot.board = movelist(game)

\* The session is at rest on the bot's turn: the game is ongoing with the
\* bot's side to move, the main loop runs and has nothing left to process,
\* and the bot has taken every update sent to it and waits for the next.
BotOwesMove ==
    /\ main_pc = "loop"
    /\ combined = <<>>
    /\ outcome(game).kind = "None"
    /\ turn(game) = bot.me
    /\ BotCaughtUp

\* C21: when the game is ongoing and it is the bot's side to move, at the
\* start for a White bot or after the opponent's accepted move, the bot
\* sends one MovePiece for that turn: once the session is at rest on the
\* bot's turn, a MovePiece of the bot is on its request channel. And the bot
\* sends a MovePiece only on its own side's turn.
C21_BotMovesOnItsTurn ==
    /\ BotOwesMove =>
          /\ Len(bot_requests) = 1
          /\ bot_requests[1].type = "MovePiece"
    /\ BotProcessed /\ BotLastSends # <<>> /\ bot.seen = Len(out[bot.me]) =>
          turn(game) = bot.me

====
